---- MODULE Spec2Model ----
(***************************************************************************)
(* Calendar backend: event store, availability checker and the event       *)
(* lifecycle of apps/backend/app/api/v1/endpoints/calendar.py on top of    *)
(* apps/backend/app/services/calendar.py.                                  *)
(*                                                                         *)
(* Instants are naturals 0..MaxTime.  An absent optional value (Python     *)
(* None) is NoTime / NoId / NoStatus; 0 is an ordinary instant.            *)
(* Primary keys (uuid4) are fresh numbers handed out by counters.          *)
(* Event rows carry two history fields that the program does not store:    *)
(* creator (the user whose request wrote the row) and checkedAt (the       *)
(* value of the event counter when the request's availability check ran).  *)
(* Titles, descriptions and the other free-text columns are not modelled.  *)
(* Attendee rows are [id, event_id].  A database call that raises is an    *)
(* input of the request (fault); which calls can raise in a handler is     *)
(* fixed by the specification the handler is used in.                      *)
(***************************************************************************)
EXTENDS Integers, FiniteSets, Sequences, TLC

\* ---------------------------------------------------------------- bounds
MaxTime == 3
MaxCalendars == 2
MaxEvents == 2
MaxInflight == 2
MaxAttendees == 2
MaxShortTime == 1
MaxSockets == 3

Users == {"u1", "u2"}
Times == 0..MaxTime
ShortTimes == 0..MaxShortTime
NoTime == -1
NoId == 0
NoStatus == "unset"
NoUser == "nobody"
CalendarIds == 1..MaxCalendars
EventIds == 1..MaxEvents
AttendeeIds == 1..MaxAttendees
Sockets == 1..MaxSockets

\* ---------------------------------------------------------------- state
\* calendars : the calendars table, indexed by id
\* events    : the events table, a set of rows
\* nextEventId : the next fresh event id
\* inflight  : POST /events requests that passed the availability check and
\*             have not yet written (the handler is suspended at an await)
\* last      : the request being answered, with its response (history);
\*             op = "none" between requests
\* attendees : the attendees table, a set of rows
\* nextAttendeeId : the next fresh attendee id
\* detail    : what else the request being answered supplied and what else
\*             its response carries (history, see Detail)
\* scenario  : how many requests of the scenario of SpecScenario have been
\*             answered (history)
\* active_connections, user_connections : the registries of the
\*             ConnectionManager of services/websocket.py
\* sockets   : the WebSocket handlers, see NoSocket
VARIABLES calendars, events, nextEventId, inflight, last, attendees, nextAttendeeId, detail, scenario, active_connections, user_connections, sockets

vars == <<calendars, events, nextEventId, inflight, last, attendees, nextAttendeeId, detail, scenario, active_connections, user_connections, sockets>>

\* what the requests of the calendar endpoints leave alone
rest == <<scenario, active_connections, user_connections, sockets>>

\* op: the endpoint; user: the acting user; code: the HTTP status;
\* calendar_id, event_id, start_time, end_time: the request's fields as
\* supplied (event_id of an accepted POST /events: the new row's id);
\* checked: the handler called check_availability; before: the row the
\* request named as it was when the request arrived (a set, empty when there
\* was none).
Answer(op, user, code, calendar_id, event_id, start_time, end_time, checked, before) ==
    [op |-> op, user |-> user, code |-> code,
     calendar_id |-> calendar_id, event_id |-> event_id,
     start_time |-> start_time, end_time |-> end_time, checked |-> checked,
     before |-> before]

NoRequest == Answer("none", NoUser, 0, NoId, NoId, NoTime, NoTime, FALSE, {})

\* fault: the database call of the handler that raised ("none": no call
\* raised); supplied: the number of attendees in the body of a POST /events;
\* attendee_id: the attendee a DELETE /attendees/{attendee_id} names, or the
\* row a POST /events/{event_id}/attendees added; items: the ids of the rows
\* in the response body; available: the value check_availability returned
\* to the handler; message: the detail of the HTTPException raised.
Detail(fault, supplied, attendee_id, items, available, message) ==
    [fault |-> fault, supplied |-> supplied, attendee_id |-> attendee_id,
     items |-> items, available |-> available, message |-> message]

NoDetail == Detail("none", 0, NoId, {}, FALSE, "")

\* A WebSocket on which websocket_endpoint has not been called yet.
\* user: the token the endpoint is called with (NoUser when it is called
\* without one); phase: "new", "open" (in the receive loop) or "ended"
\* (websocket_endpoint has returned); connection_id: the id
\* ConnectionManager.connect gave it.
NoSocket == [user |-> NoUser, phase |-> "new", connection_id |-> NoId]

\* A dict with no key (ConnectionManager.__init__).
EmptyDict == [k \in {} |-> k]

Idle == last = NoRequest

Init ==
    /\ calendars = << >>
    /\ events = {}
    /\ nextEventId = 1
    /\ inflight = {}
    /\ last = NoRequest
    /\ attendees = {}
    /\ nextAttendeeId = 1
    /\ detail = NoDetail
    /\ scenario = 0
    /\ active_connections = EmptyDict
    /\ user_connections = EmptyDict
    /\ sockets = [w \in Sockets |-> NoSocket]

\* ------------------------------------------------------- calendar service
\* get_user_calendars without the user_id filter
get_user_calendars_any_user(user_id) ==
    {c \in DOMAIN calendars : calendars[c].is_active}

\* get_user_calendars without the is_active filter
get_user_calendars_with_inactive(user_id) ==
    {c \in DOMAIN calendars : calendars[c].user_id = user_id}

\* CalendarService.get_user_calendars: the user's active calendars (ids).
get_user_calendars(user_id) ==
    {c \in DOMAIN calendars :
        calendars[c].user_id = user_id /\ calendars[c].is_active}

\* CalendarService.get_events: rows on the given calendars (the user's
\* active calendars when no calendar_ids are passed), with
\* start_time >= start_date and end_time <= end_date when those are given.
get_events(user_id, start_date, end_date, calendar_ids) ==
    LET ids == IF calendar_ids = {} THEN get_user_calendars(user_id)
               ELSE calendar_ids
    IN {ev \in events :
          /\ ev.calendar_id \in ids
          /\ (start_date # NoTime => ev.start_time >= start_date)
          /\ (end_date # NoTime => ev.end_time <= end_date)}

\* CalendarService.get_event
get_event(event_id) == {ev \in events : ev.id = event_id}

\* CalendarService.get_event_attendees
get_event_attendees(event_id) == {a \in attendees : a.event_id = event_id}

\* Attendee.event_id is a NOT NULL foreign key to events.id and
\* Event.attendees has no delete cascade: while an attendee row references
\* an event, the flush that deletes the event raises IntegrityError.
event_is_referenced(event_id) == get_event_attendees(event_id) # {}

\* _events_overlap with closed intervals
_events_overlap_closed(start1, end1, start2, end2) ==
    start1 <= end2 /\ start2 <= end1

\* CalendarService._events_overlap
_events_overlap(start1, end1, start2, end2) ==
    start1 < end2 /\ start2 < end1

\* check_availability that does not filter out exclude_event_id
check_availability_no_exclude(user_id, start_time, end_time, exclude_event_id) ==
    ~ \E ev \in get_events(user_id, start_time, end_time, {}) :
        _events_overlap(start_time, end_time, ev.start_time, ev.end_time)

\* check_availability that passes over cancelled events
check_availability_skips_cancelled(user_id, start_time, end_time, exclude_event_id) ==
    LET fetched == get_events(user_id, start_time, end_time, {})
        evs == IF exclude_event_id # NoId
               THEN {ev \in fetched : ev.id # exclude_event_id}
               ELSE fetched
    IN ~ \E ev \in evs :
           /\ ev.status # "cancelled"
           /\ _events_overlap(start_time, end_time, ev.start_time, ev.end_time)

\* CalendarService.check_availability
check_availability(user_id, start_time, end_time, exclude_event_id) ==
    LET fetched == get_events(user_id, start_time, end_time, {})
        evs == IF exclude_event_id # NoId
               THEN {ev \in fetched : ev.id # exclude_event_id}
               ELSE fetched
    IN ~ \E ev \in evs :
           _events_overlap(start_time, end_time, ev.start_time, ev.end_time)

\* ---------------------------------------------------------------- schemas
\* the EventCreate validator refusing only end_time < start_time
EventCreateValid_allows_equal(start_time, end_time) ==
    ~ (end_time < start_time)

\* EventCreate.end_time_must_be_after_start_time (both fields required)
EventCreateValid(start_time, end_time) == ~ (end_time <= start_time)

\* EventUpdate.end_time_must_be_after_start_time: runs only when end_time
\* is supplied, and compares only when start_time is supplied as well.
EventUpdateValid(start_time, end_time) ==
    ~ (end_time # NoTime /\ start_time # NoTime /\ end_time <= start_time)

\* ----------------------------------------------------------------- faults
\* The database call of a handler that raises: "fetch" a query inside
\* CalendarService.get_events, "commit" the commit of the handler's write,
\* "fetch_commit" both, "refresh" the refresh after the commit of a new
\* event row, "attendees_commit" the commit of the attendee rows.
FetchFaults == {"fetch", "fetch_commit"}
CommitFaults == {"commit", "fetch_commit"}
StorageFaults == {"none", "fetch", "commit", "fetch_commit"}
CreateFaults == {"none", "commit", "refresh", "attendees_commit"}

\* CalendarService.get_events catches every exception and returns [];
\* check_availability then finds nothing to conflict with and returns True.
\* code is the response code the handler decides on when no query raises,
\* go the code with which it goes on to its write.
after_check(fault, code, go) ==
    IF fault \in FetchFaults /\ code = 409 THEN go ELSE code

\* -------------------------------------------------------------- endpoints
\* The detail of the HTTPException behind a response code of the event
\* endpoints (422 is raised by the schema, not by the handler).
EventMessage(code) ==
    IF code = 404 THEN "Event not found"
    ELSE IF code = 409 THEN "Time slot is not available"
    ELSE ""

\* The response has been sent and the request's session is closed.
respond ==
    /\ ~ Idle
    /\ last' = NoRequest
    /\ detail' = NoDetail
    /\ UNCHANGED <<calendars, events, nextEventId, inflight, attendees, nextAttendeeId, rest>>

\* POST /calendars
create_calendar ==
    \E u \in Users :
        /\ Idle
        /\ Len(calendars) < MaxCalendars
        /\ calendars' = Append(calendars, [user_id |-> u, is_active |-> TRUE])
        /\ last' = Answer("create_calendar", u, 201, Len(calendars) + 1,
                          NoId, NoTime, NoTime, FALSE, {})
        /\ UNCHANGED <<events, nextEventId, inflight, attendees, nextAttendeeId, detail, rest>>

\* PUT /calendars/{calendar_id}: sets the fields of CalendarUpdate (name,
\* description, calendar_type, color, is_primary) on one of the user's
\* active calendars; none of them is a column of the model.
update_calendar ==
    \E u \in Users, c \in CalendarIds :
        /\ Idle
        /\ calendars' = calendars
        /\ last' = Answer("update_calendar", u,
                          IF c \in get_user_calendars(u) THEN 200 ELSE 404,
                          c, NoId, NoTime, NoTime, FALSE, {})
        /\ UNCHANGED <<events, nextEventId, inflight, attendees, nextAttendeeId, detail, rest>>

\* a DELETE /calendars/{calendar_id} that deletes the row when it is the
\* newest one
delete_calendar_removes_row ==
    \E u \in Users, c \in CalendarIds :
        /\ Idle
        /\ IF c \in get_user_calendars(u)
           THEN /\ calendars' = IF c = Len(calendars)
                                THEN SubSeq(calendars, 1, c - 1)
                                ELSE [calendars EXCEPT ![c].is_active = FALSE]
                /\ last' = Answer("delete_calendar", u, 204, c, NoId,
                                  NoTime, NoTime, FALSE, {})
           ELSE /\ calendars' = calendars
                /\ last' = Answer("delete_calendar", u, 404, c, NoId,
                                  NoTime, NoTime, FALSE, {})
        /\ UNCHANGED <<events, nextEventId, inflight, attendees, nextAttendeeId, detail, rest>>

\* DELETE /calendars/{calendar_id}
delete_calendar ==
    \E u \in Users, c \in CalendarIds :
        /\ Idle
        /\ IF c \in get_user_calendars(u)
           THEN /\ calendars' = [calendars EXCEPT ![c].is_active = FALSE]
                /\ last' = Answer("delete_calendar", u, 204, c, NoId,
                                  NoTime, NoTime, FALSE, {})
           ELSE /\ calendars' = calendars
                /\ last' = Answer("delete_calendar", u, 404, c, NoId,
                                  NoTime, NoTime, FALSE, {})
        /\ UNCHANGED <<events, nextEventId, inflight, attendees, nextAttendeeId, detail, rest>>

\* The response code POST /events decides on before it writes:
\* 422 schema validation, 404 calendar not among the user's, 409 slot
\* unavailable, 201 go on to CalendarService.create_event.
create_event_code(u, c, s, e) ==
    IF ~ EventCreateValid(s, e) THEN 422
    ELSE IF c \notin get_user_calendars(u) THEN 404
    ELSE IF ~ check_availability(u, s, e, NoId) THEN 409
    ELSE 201

\* CalendarService.create_event: the row written (status is the column
\* default "confirmed").
NewEvent(id, c, s, e, u, checkedAt) ==
    [id |-> id, calendar_id |-> c, start_time |-> s, end_time |-> e,
     status |-> "confirmed", creator |-> u, checkedAt |-> checkedAt]

\* POST /events, the whole handler in one step
create_event ==
    \E u \in Users, c \in CalendarIds, s \in Times, e \in Times :
        LET code == create_event_code(u, c, s, e)
        IN /\ Idle
           /\ code = 201 => nextEventId <= MaxEvents
           /\ IF code = 201
              THEN /\ events' = events \cup
                        {NewEvent(nextEventId, c, s, e, u, nextEventId)}
                   /\ nextEventId' = nextEventId + 1
                   /\ last' = Answer("create_event", u, 201, c, nextEventId,
                                     s, e, TRUE, {})
              ELSE /\ UNCHANGED <<events, nextEventId>>
                   /\ last' = Answer("create_event", u, code, c, NoId,
                                     s, e, code = 409, {})
           /\ UNCHANGED <<calendars, inflight, attendees, nextAttendeeId, detail, rest>>

\* The effective window of an update: a bound not supplied is the row's.
new_start(event, s) == IF s # NoTime THEN s ELSE event.start_time
new_end(event, e) == IF e # NoTime THEN e ELSE event.end_time

\* update_event_code checking availability whether or not a time is supplied
update_event_code_always_checks(u, id, s, e) ==
    IF ~ EventUpdateValid(s, e) THEN 422
    ELSE IF get_event(id) = {} THEN 404
    ELSE LET event == CHOOSE ev \in get_event(id) : TRUE
         IN IF event.calendar_id \notin get_user_calendars(u) THEN 404
            ELSE IF ~ check_availability(u, new_start(event, s),
                                         new_end(event, e), id)
                 THEN 409
                 ELSE 200

\* The response code PUT /events/{event_id} decides on before it writes:
\* 422 schema validation, 404 no such row or row not on one of the user's
\* calendars, 409 effective window unavailable, 200 go on to
\* CalendarService.update_event.
update_event_code(u, id, s, e) ==
    IF ~ EventUpdateValid(s, e) THEN 422
    ELSE IF get_event(id) = {} THEN 404
    ELSE LET event == CHOOSE ev \in get_event(id) : TRUE
         IN IF event.calendar_id \notin get_user_calendars(u) THEN 404
            ELSE IF (s # NoTime \/ e # NoTime)
                    /\ ~ check_availability(u, new_start(event, s),
                                            new_end(event, e), id)
                 THEN 409
                 ELSE 200

\* CalendarService.update_event: every supplied (non-None) field is set.
UpdatedEvent(event, s, e, st) ==
    [event EXCEPT !.start_time = IF s # NoTime THEN s ELSE @,
                  !.end_time = IF e # NoTime THEN e ELSE @,
                  !.status = IF st # NoStatus THEN st ELSE @]

\* PUT /events/{event_id}, the whole handler in one step, with the
\* instants drawn from times, the status field from statuses (or not
\* supplied) and the call that raises from faults.
\* CalendarService.update_event catches the exception of its commit and
\* returns None, which the endpoint answers with 500.
UpdateEventIn(times, statuses, faults) ==
    \E u \in Users, id \in EventIds,
       s \in times \cup {NoTime}, e \in times \cup {NoTime},
       st \in statuses \cup {NoStatus}, fault \in faults :
        LET decided == update_event_code(u, id, s, e)
            timed == s # NoTime \/ e # NoTime
            passed == after_check(fault, decided, 200)
            code == IF passed = 200 /\ fault \in CommitFaults THEN 500
                    ELSE passed
        IN /\ Idle
           /\ decided \in {422, 404} => fault = "none"
           /\ fault \in FetchFaults => timed
           /\ passed = 409 => fault = "none"
           /\ IF code = 200
              THEN events' = {IF ev.id = id THEN UpdatedEvent(ev, s, e, st)
                              ELSE ev : ev \in events}
              ELSE events' = events
           /\ last' = Answer("update_event", u, code, NoId, id, s, e,
                             timed /\ code \in {409, 200, 500}, get_event(id))
           /\ detail' = Detail(fault, 0, NoId,
                               IF code = 200 THEN {id} ELSE {},
                               timed /\ passed = 200,
                               IF code = 500 THEN "Failed to update event"
                               ELSE EventMessage(code))
           /\ UNCHANGED <<calendars, nextEventId, inflight, attendees, nextAttendeeId, rest>>

\* PUT /events/{event_id} with the status field drawn from statuses
UpdateEvent(statuses) == UpdateEventIn(Times, statuses, {"none"})

\* PUT /events/{event_id} with the status field not supplied
update_event == UpdateEvent({})

\* a PUT /events/{event_id} on the short time line that sets the fields
\* before it checks availability
update_event_short_sets_first ==
    \E u \in Users, id \in EventIds,
       s \in ShortTimes \cup {NoTime}, e \in ShortTimes \cup {NoTime} :
        LET code == update_event_code(u, id, s, e)
        IN /\ Idle
           /\ IF code \in {200, 409}
              THEN events' = {IF ev.id = id
                              THEN UpdatedEvent(ev, s, e, NoStatus)
                              ELSE ev : ev \in events}
              ELSE events' = events
           /\ last' = Answer("update_event", u, code, NoId, id, s, e,
                             (s # NoTime \/ e # NoTime) /\ code \in {409, 200},
                             get_event(id))
           /\ detail' = Detail("none", 0, NoId,
                               IF code = 200 THEN {id} ELSE {},
                               (s # NoTime \/ e # NoTime) /\ code = 200,
                               EventMessage(code))
           /\ UNCHANGED <<calendars, nextEventId, inflight, attendees, nextAttendeeId, rest>>

\* PUT /events/{event_id} on the short time line, status not supplied
update_event_short == UpdateEventIn(ShortTimes, {}, {"none"})

\* delete_event_code answering 403 for an event on a calendar that is not
\* the user's
delete_event_code_forbidden(u, id) ==
    IF get_event(id) = {} THEN 404
    ELSE LET event == CHOOSE ev \in get_event(id) : TRUE
         IN IF event.calendar_id \notin get_user_calendars(u) THEN 403
            ELSE IF event_is_referenced(id) THEN 500
            ELSE 204

\* delete_event_code going on to CalendarService.delete_event without
\* looking the event up first
delete_event_code_no_lookup(u, id) ==
    IF get_event(id) = {} THEN 500
    ELSE LET event == CHOOSE ev \in get_event(id) : TRUE
         IN IF event.calendar_id \notin get_user_calendars(u) THEN 404
            ELSE IF event_is_referenced(id) THEN 500
            ELSE 204

\* The response code DELETE /events/{event_id} decides on: 404 no such row
\* or row not on one of the user's calendars, 500
\* CalendarService.delete_event returned False (its commit raised), 204 the
\* row is deleted.
delete_event_code(u, id) ==
    IF get_event(id) = {} THEN 404
    ELSE LET event == CHOOSE ev \in get_event(id) : TRUE
         IN IF event.calendar_id \notin get_user_calendars(u) THEN 404
            ELSE IF event_is_referenced(id) THEN 500
            ELSE 204

\* DELETE /events/{event_id}, the whole handler in one step, with the call
\* that raises drawn from faults.  CalendarService.delete_event catches the
\* exception of its commit and returns False, which the endpoint answers
\* with 500.
DeleteEventIn(faults) ==
    \E u \in Users, id \in EventIds, fault \in faults :
        LET decided == delete_event_code(u, id)
            code == IF decided = 204 /\ fault = "commit" THEN 500
                    ELSE decided
        IN /\ Idle
           /\ decided # 204 => fault = "none"
           /\ IF code = 204
              THEN events' = {ev \in events : ev.id # id}
              ELSE events' = events
           /\ last' = Answer("delete_event", u, code, NoId, id,
                             NoTime, NoTime, FALSE, get_event(id))
           /\ detail' = Detail(fault, 0, NoId, {}, FALSE,
                               IF code = 500 THEN "Failed to delete event"
                               ELSE EventMessage(code))
           /\ UNCHANGED <<calendars, nextEventId, inflight, attendees, nextAttendeeId, rest>>

\* DELETE /events/{event_id} when no call raises
delete_event == DeleteEventIn({"none"})

\* POST /events up to the await after check_availability: a refused request
\* is answered; a request that passed is suspended before it writes.
create_event_check ==
    \E u \in Users, c \in CalendarIds, s \in Times, e \in Times :
        LET code == create_event_code(u, c, s, e)
            free == (1..MaxInflight) \ {r.req : r \in inflight}
        IN /\ Idle
           /\ IF code = 201
              THEN /\ free # {}
                   /\ Cardinality(inflight) + nextEventId <= MaxEvents
                   /\ inflight' = inflight \cup
                        {[req |-> CHOOSE n \in free : \A m \in free : n <= m,
                          user |-> u, calendar_id |-> c, start_time |-> s,
                          end_time |-> e, checkedAt |-> nextEventId]}
                   /\ last' = last
              ELSE /\ inflight' = inflight
                   /\ last' = Answer("create_event", u, code, c, NoId,
                                     s, e, code = 409, {})
           /\ UNCHANGED <<calendars, events, nextEventId, attendees, nextAttendeeId, detail, rest>>

\* a POST /events that, from the await on, refuses the request when a row
\* was written since its availability check
create_event_write_if_unchanged ==
    \E r \in inflight :
        /\ Idle
        /\ inflight' = inflight \ {r}
        /\ IF nextEventId = r.checkedAt
           THEN /\ events' = events \cup
                     {NewEvent(nextEventId, r.calendar_id, r.start_time,
                               r.end_time, r.user, r.checkedAt)}
                /\ nextEventId' = nextEventId + 1
                /\ last' = Answer("create_event", r.user, 201, r.calendar_id,
                                  nextEventId, r.start_time, r.end_time, TRUE, {})
           ELSE /\ UNCHANGED <<events, nextEventId>>
                /\ last' = Answer("create_event", r.user, 409, r.calendar_id,
                                  NoId, r.start_time, r.end_time, TRUE, {})
        /\ UNCHANGED <<calendars, attendees, nextAttendeeId, detail, rest>>

\* POST /events from that await on: CalendarService.create_event writes the
\* row and the request is answered 201.
create_event_write ==
    \E r \in inflight :
        /\ Idle
        /\ events' = events \cup
             {NewEvent(nextEventId, r.calendar_id, r.start_time, r.end_time,
                       r.user, r.checkedAt)}
        /\ nextEventId' = nextEventId + 1
        /\ inflight' = inflight \ {r}
        /\ last' = Answer("create_event", r.user, 201, r.calendar_id,
                          nextEventId, r.start_time, r.end_time, TRUE, {})
        /\ UNCHANGED <<calendars, attendees, nextAttendeeId, detail, rest>>

\* CalendarService._add_attendees: one row per attendee supplied, with
\* fresh ids from first on.
NewAttendees(event_id, first, n) ==
    {[id |-> a, event_id |-> event_id] : a \in first..(first + n - 1)}

\* POST /events, the whole handler in one step, with the instants drawn
\* from times, the number of attendees in the body from counts and the call
\* that raises from faults.  CalendarService.create_event commits the event
\* row, refreshes it and, when attendees are supplied, adds them and commits
\* again; an exception of any of these calls is not caught and answers 500.
CreateEventIn(times, counts, faults) ==
    \E u \in Users, c \in CalendarIds, s \in times, e \in times,
       n \in counts, fault \in faults :
        LET decided == create_event_code(u, c, s, e)
            code == after_check(fault, decided, 201)
            event == NewEvent(nextEventId, c, s, e, u, nextEventId)
        IN /\ Idle
           /\ decided \in {422, 404} => fault = "none"
           /\ code # 201 => fault = "none"
           /\ code = 201 => /\ nextEventId <= MaxEvents
                            /\ nextAttendeeId + n - 1 <= MaxAttendees
                            /\ fault = "attendees_commit" => n > 0
           /\ IF code # 201
              THEN /\ UNCHANGED <<events, nextEventId, attendees, nextAttendeeId>>
                   /\ last' = Answer("create_event", u, code, c, NoId,
                                     s, e, code = 409, {})
                   /\ detail' = Detail(fault, n, NoId, {}, FALSE,
                                       IF code = 404 THEN "Calendar not found"
                                       ELSE EventMessage(code))
              ELSE IF fault \in CommitFaults
              THEN /\ UNCHANGED <<events, nextEventId, attendees, nextAttendeeId>>
                   /\ last' = Answer("create_event", u, 500, c, NoId,
                                     s, e, TRUE, {})
                   /\ detail' = Detail(fault, n, NoId, {}, TRUE, "")
              ELSE IF fault \in {"refresh", "attendees_commit"}
              THEN /\ events' = events \cup {event}
                   /\ nextEventId' = nextEventId + 1
                   /\ UNCHANGED <<attendees, nextAttendeeId>>
                   /\ last' = Answer("create_event", u, 500, c, nextEventId,
                                     s, e, TRUE, {})
                   /\ detail' = Detail(fault, n, NoId, {}, TRUE, "")
              ELSE /\ events' = events \cup {event}
                   /\ nextEventId' = nextEventId + 1
                   /\ attendees' = attendees \cup
                        NewAttendees(nextEventId, nextAttendeeId, n)
                   /\ nextAttendeeId' = nextAttendeeId + n
                   /\ last' = Answer("create_event", u, 201, c, nextEventId,
                                     s, e, TRUE, {})
                   /\ detail' = Detail(fault, n, NoId, {nextEventId}, TRUE, "")
           /\ UNCHANGED <<calendars, inflight, rest>>

\* POST /events with attendees on the short time line; a write may raise
create_event_attendees ==
    CreateEventIn(ShortTimes, 0..MaxAttendees, CreateFaults)

\* The response code of the endpoints that look an event up and verify that
\* it lies on one of the user's calendars before they go on (200).
event_lookup_code(u, id) ==
    IF get_event(id) = {} THEN 404
    ELSE LET event == CHOOSE ev \in get_event(id) : TRUE
         IN IF event.calendar_id \notin get_user_calendars(u) THEN 404
            ELSE 200

\* GET /events/{event_id}
get_event_endpoint ==
    \E u \in Users, id \in EventIds :
        LET code == event_lookup_code(u, id)
        IN /\ Idle
           /\ last' = Answer("get_event", u, code, NoId, id, NoTime, NoTime,
                             FALSE, get_event(id))
           /\ detail' = Detail("none", 0, NoId,
                               IF code = 200 THEN {id} ELSE {},
                               FALSE, EventMessage(code))
           /\ UNCHANGED <<calendars, events, nextEventId, inflight, attendees, nextAttendeeId, rest>>

\* GET /events/{event_id}/attendees
get_event_attendees_endpoint ==
    \E u \in Users, id \in EventIds :
        LET code == event_lookup_code(u, id)
        IN /\ Idle
           /\ last' = Answer("get_event_attendees", u, code, NoId, id,
                             NoTime, NoTime, FALSE, get_event(id))
           /\ detail' = Detail("none", 0, NoId,
                               IF code = 200
                               THEN {a.id : a \in get_event_attendees(id)}
                               ELSE {},
                               FALSE, EventMessage(code))
           /\ UNCHANGED <<calendars, events, nextEventId, inflight, attendees, nextAttendeeId, rest>>

\* POST /events/{event_id}/attendees
add_event_attendee ==
    \E u \in Users, id \in EventIds :
        LET code == event_lookup_code(u, id)
        IN /\ Idle
           /\ code = 200 => nextAttendeeId <= MaxAttendees
           /\ IF code = 200
              THEN /\ attendees' = attendees \cup
                        {[id |-> nextAttendeeId, event_id |-> id]}
                   /\ nextAttendeeId' = nextAttendeeId + 1
                   /\ detail' = Detail("none", 0, nextAttendeeId,
                                       {nextAttendeeId}, FALSE, "")
              ELSE /\ UNCHANGED <<attendees, nextAttendeeId>>
                   /\ detail' = Detail("none", 0, NoId, {}, FALSE,
                                       EventMessage(code))
           /\ last' = Answer("add_event_attendee", u, code, NoId, id,
                             NoTime, NoTime, FALSE, get_event(id))
           /\ UNCHANGED <<calendars, events, nextEventId, inflight, rest>>

\* a DELETE /attendees/{attendee_id} that deletes every attendee of the
\* row's event
remove_event_attendee_of_event ==
    \E u \in Users, a \in AttendeeIds :
        LET rows == {r \in attendees : r.id = a}
            code == IF rows = {} THEN 404 ELSE 204
        IN /\ Idle
           /\ attendees' = {r \in attendees :
                               \A x \in rows : r.event_id # x.event_id}
           /\ last' = Answer("remove_event_attendee", u, code, NoId, NoId,
                             NoTime, NoTime, FALSE, {})
           /\ detail' = Detail("none", 0, a, {}, FALSE,
                               IF code = 404 THEN "Attendee not found" ELSE "")
           /\ UNCHANGED <<calendars, events, nextEventId, inflight, nextAttendeeId, rest>>

\* DELETE /attendees/{attendee_id}: CalendarService.remove_event_attendee
\* deletes the row with that id, whoever asks; 404 when there is none.
remove_event_attendee ==
    \E u \in Users, a \in AttendeeIds :
        LET rows == {r \in attendees : r.id = a}
            code == IF rows = {} THEN 404 ELSE 204
        IN /\ Idle
           /\ attendees' = attendees \ rows
           /\ last' = Answer("remove_event_attendee", u, code, NoId, NoId,
                             NoTime, NoTime, FALSE, {})
           /\ detail' = Detail("none", 0, a, {}, FALSE,
                               IF code = 404 THEN "Attendee not found" ELSE "")
           /\ UNCHANGED <<calendars, events, nextEventId, inflight, nextAttendeeId, rest>>

\* GET /events: the rows CalendarService.get_events returns for the
\* caller's filters (offset 0 and a limit that holds them all); a query
\* that raises inside get_events is caught there and [] is returned.
get_events_endpoint ==
    \E u \in Users, start_date \in ShortTimes \cup {NoTime},
       end_date \in ShortTimes \cup {NoTime},
       calendar_ids \in SUBSET CalendarIds, fault \in {"none", "fetch"} :
        LET rows == IF fault = "fetch" THEN {}
                    ELSE get_events(u, start_date, end_date, calendar_ids)
        IN /\ Idle
           /\ last' = Answer("get_events", u, 200, NoId, NoId,
                             start_date, end_date, FALSE, {})
           /\ detail' = Detail(fault, 0, NoId, {ev.id : ev \in rows},
                               FALSE, "")
           /\ UNCHANGED <<calendars, events, nextEventId, inflight, attendees, nextAttendeeId, rest>>

\* CalendarService.search_events: the rows on the user's active calendars
\* whose title or description matches the query (matching: the ids whose
\* text does).
search_events(user_id, matching) ==
    {ev \in events :
        ev.calendar_id \in get_user_calendars(user_id) /\ ev.id \in matching}

\* POST /events/search; a query that raises inside
\* CalendarService.search_events is caught there and [] is returned.
search_events_endpoint ==
    \E u \in Users, matching \in SUBSET EventIds,
       fault \in {"none", "fetch"} :
        LET rows == IF fault = "fetch" THEN {}
                    ELSE search_events(u, matching)
        IN /\ Idle
           /\ last' = Answer("search_events", u, 200, NoId, NoId,
                             NoTime, NoTime, FALSE, {})
           /\ detail' = Detail(fault, 0, NoId, {ev.id : ev \in rows},
                               FALSE, "")
           /\ UNCHANGED <<calendars, events, nextEventId, inflight, attendees, nextAttendeeId, rest>>

\* POST /events/availability: the value of check_availability and, when it
\* is False, the rows get_events returns for the window without the
\* excluded one (items).  EventAvailabilityRequest has no validator.
check_availability_endpoint ==
    \E u \in Users, s \in ShortTimes, e \in ShortTimes,
       x \in EventIds \cup {NoId}, fault \in {"none", "fetch"} :
        LET is_available == fault = "fetch" \/ check_availability(u, s, e, x)
            conflicting_events ==
                IF is_available THEN {}
                ELSE {ev \in get_events(u, s, e, {}) : ev.id # x}
        IN /\ Idle
           /\ last' = Answer("check_availability", u, 200, NoId, x, s, e,
                             TRUE, {})
           /\ detail' = Detail(fault, 0, NoId,
                               {ev.id : ev \in conflicting_events},
                               is_available, "")
           /\ UNCHANGED <<calendars, events, nextEventId, inflight, attendees, nextAttendeeId, rest>>

\* POST /events on the short time line without attendees
create_event_short == CreateEventIn(ShortTimes, {0}, {"none"})

\* PUT /events/{event_id} on the short time line with a status
update_event_status ==
    UpdateEventIn(ShortTimes, {"confirmed", "cancelled"}, {"none"})

\* PUT /events/{event_id} on the short time line with any status of the
\* column's comment (confirmed, tentative, cancelled)
update_event_any_status ==
    UpdateEventIn(ShortTimes, {"confirmed", "tentative", "cancelled"}, {"none"})

\* POST /events, PUT and DELETE /events/{event_id} on the short time line
\* where a database call may raise
create_event_storage == CreateEventIn(ShortTimes, {0}, StorageFaults)
update_event_storage == UpdateEventIn(ShortTimes, {}, StorageFaults)
delete_event_storage == DeleteEventIn({"none", "commit"})

\* The requests of the scenario on calendar C: quarter-hour instants from
\* 09:00 on, the user, the calendar and the id E1 is stored under.
Scenario ==
    [user |-> "u1", C |-> 1, E1 |-> 1, t0900 |-> 0, t0915 |-> 1,
     t0930 |-> 2, t1000 |-> 4, t1030 |-> 6, t1100 |-> 8]

\* POST /calendars by the scenario's user: calendar C
scenario_calendar ==
    /\ Idle
    /\ scenario = 0
    /\ calendars = << >>
    /\ calendars' = Append(calendars, [user_id |-> Scenario.user, is_active |-> TRUE])
    /\ last' = Answer("create_calendar", Scenario.user, 201, Scenario.C,
                      NoId, NoTime, NoTime, FALSE, {})
    /\ scenario' = scenario + 1
    /\ UNCHANGED <<events, nextEventId, inflight, attendees, nextAttendeeId, detail, active_connections, user_connections, sockets>>

\* POST /events on calendar C for the window [s, e), as request number
\* step of the scenario: the whole handler in one step.
scenario_create(step, s, e) ==
    LET code == create_event_code(Scenario.user, Scenario.C, s, e)
    IN /\ Idle
       /\ scenario = step
       /\ IF code = 201
          THEN /\ events' = events \cup
                    {NewEvent(nextEventId, Scenario.C, s, e, Scenario.user, nextEventId)}
               /\ nextEventId' = nextEventId + 1
               /\ last' = Answer("create_event", Scenario.user, 201,
                                 Scenario.C, nextEventId, s, e, TRUE, {})
          ELSE /\ UNCHANGED <<events, nextEventId>>
               /\ last' = Answer("create_event", Scenario.user, code,
                                 Scenario.C, NoId, s, e, code = 409, {})
       /\ detail' = Detail("none", 0, NoId, {}, code = 201, EventMessage(code))
       /\ scenario' = scenario + 1
       /\ UNCHANGED <<calendars, inflight, attendees, nextAttendeeId, active_connections, user_connections, sockets>>

\* PUT /events/{E1} with only end_time supplied, as request number step
scenario_update(step, e) ==
    LET code == update_event_code(Scenario.user, Scenario.E1, NoTime, e)
    IN /\ Idle
       /\ scenario = step
       /\ IF code = 200
          THEN events' = {IF ev.id = Scenario.E1
                          THEN UpdatedEvent(ev, NoTime, e, NoStatus)
                          ELSE ev : ev \in events}
          ELSE events' = events
       /\ last' = Answer("update_event", Scenario.user, code, NoId,
                         Scenario.E1, NoTime, e, code \in {409, 200},
                         get_event(Scenario.E1))
       /\ detail' = Detail("none", 0, NoId, {}, code = 200, EventMessage(code))
       /\ scenario' = scenario + 1
       /\ UNCHANGED <<calendars, nextEventId, inflight, attendees, nextAttendeeId, active_connections, user_connections, sockets>>

\* The five event requests of the scenario, in their order.
scenario_create_E1 == scenario_create(1, Scenario.t0900, Scenario.t1000)
scenario_create_E2 == scenario_create(2, Scenario.t0930, Scenario.t1030)
scenario_create_E3 == scenario_create(3, Scenario.t1000, Scenario.t1100)
scenario_update_E1 == scenario_update(4, Scenario.t0915)
scenario_recreate_E2 == scenario_create(5, Scenario.t0930, Scenario.t1030)

\* ------------------------------------------------------------ websocket
\* d[k] = v and del d[k] on a dict
Put(d, k, v) == [x \in DOMAIN d \cup {k} |-> IF x = k THEN v ELSE d[x]]
Drop(d, k) == [x \in DOMAIN d \ {k} |-> d[x]]

\* str(uuid.uuid4()): an id no connection was given before
uuid4 == Cardinality({w \in Sockets : sockets[w].connection_id # NoId}) + 1

\* the connection_id "unknown" of the endpoint's except branch: the id of
\* no connection
Unknown == NoId

\* user_id or "anonymous"
Key(user_id) == IF user_id = NoUser THEN "anonymous" ELSE user_id

\* ConnectionManager.connect after websocket.accept() has returned; the
\* confirmation it sends changes no registry, and a send that raises is
\* caught in send_personal_message.
connect(websocket, user_id, connection_id) ==
    /\ active_connections' = Put(active_connections, connection_id, websocket)
    /\ user_connections' =
          Put(user_connections, user_id,
              (IF user_id \in DOMAIN user_connections
               THEN user_connections[user_id] ELSE {}) \cup {connection_id})

\* a disconnect that keeps the user's set when it becomes empty
disconnect_keeps_empty_set(connection_id, user_id) ==
    /\ active_connections' =
          IF connection_id \in DOMAIN active_connections
          THEN Drop(active_connections, connection_id)
          ELSE active_connections
    /\ user_connections' =
          IF user_id \in DOMAIN user_connections
          THEN Put(user_connections, user_id,
                   user_connections[user_id] \ {connection_id})
          ELSE user_connections

\* ConnectionManager.disconnect
disconnect(connection_id, user_id) ==
    /\ active_connections' =
          IF connection_id \in DOMAIN active_connections
          THEN Drop(active_connections, connection_id)
          ELSE active_connections
    /\ user_connections' =
          IF user_id \in DOMAIN user_connections
          THEN LET remaining == user_connections[user_id] \ {connection_id}
               IN IF remaining = {}
                  THEN Drop(user_connections, user_id)
                  ELSE Put(user_connections, user_id, remaining)
          ELSE user_connections

\* ConnectionManager.send_to_user and broadcast: the WebSockets a message
\* is sent to
send_to_user(user_id) ==
    IF user_id \in DOMAIN user_connections
    THEN {active_connections[c] :
            c \in user_connections[user_id] \cap DOMAIN active_connections}
    ELSE {}
broadcast == {active_connections[c] : c \in DOMAIN active_connections}

\* the variables of the calendar endpoints
calendar_vars == <<calendars, events, nextEventId, inflight, last, attendees, nextAttendeeId, detail, scenario>>

\* websocket_endpoint from its call to the first receive_text: the
\* connection is accepted and registered.
websocket_connect ==
    \E w \in Sockets, token \in Users \cup {NoUser} :
        /\ sockets[w].phase = "new"
        /\ connect(w, Key(token), uuid4)
        /\ sockets' = [sockets EXCEPT ![w] = [user |-> token, phase |-> "open", connection_id |-> uuid4]]
        /\ UNCHANGED calendar_vars

\* the except WebSocketDisconnect branch of websocket_endpoint
on_disconnect(w) ==
    LET found == {cid \in DOMAIN active_connections :
                     active_connections[cid] = w}
    IN IF found # {}
       THEN disconnect(CHOOSE cid \in found : TRUE, Key(sockets[w].user))
       ELSE UNCHANGED <<active_connections, user_connections>>

\* the except Exception branch of websocket_endpoint
on_exception(user_id) ==
    IF user_id # NoUser
    THEN disconnect(Unknown, user_id)
    ELSE UNCHANGED <<active_connections, user_connections>>

\* websocket_endpoint when websocket.accept() raises: nothing was
\* registered, and the branch of the exception's kind runs.
websocket_accept_fails ==
    \E w \in Sockets, token \in Users \cup {NoUser}, closed \in BOOLEAN :
        /\ sockets[w].phase = "new"
        /\ sockets' = [sockets EXCEPT ![w] = [user |-> token, phase |-> "ended", connection_id |-> NoId]]
        /\ IF closed THEN on_disconnect(w) ELSE on_exception(token)
        /\ UNCHANGED calendar_vars

\* receive_text raises WebSocketDisconnect: the client has gone.
websocket_disconnect ==
    \E w \in Sockets :
        /\ sockets[w].phase = "open"
        /\ on_disconnect(w)
        /\ sockets' = [sockets EXCEPT ![w].phase = "ended"]
        /\ UNCHANGED calendar_vars

\* the loop raises any other exception: json.loads on a text that is not
\* JSON, or message.get on a JSON value that is not an object.  A message
\* that is handled changes no registry and is no step of the model.
websocket_error ==
    \E w \in Sockets :
        /\ sockets[w].phase = "open"
        /\ on_exception(sockets[w].user)
        /\ sockets' = [sockets EXCEPT ![w].phase = "ended"]
        /\ UNCHANGED calendar_vars

\* ------------------------------------------------------- specifications
\* The event lifecycle, one request at a time.
Next ==
    \/ create_calendar
    \/ create_event
    \/ update_event
    \/ delete_event
    \/ respond

Spec == Init /\ [][Next]_vars

\* POST /events requests interleaved at the await between the availability
\* check and the write.
NextConcurrent ==
    \/ create_calendar
    \/ create_event_check
    \/ create_event_write
    \/ respond

SpecConcurrent == Init /\ [][NextConcurrent]_vars

\* Events with their attendees, one request at a time.
NextAttendees ==
    \/ create_calendar
    \/ create_event_attendees
    \/ add_event_attendee
    \/ remove_event_attendee
    \/ get_event_endpoint
    \/ get_event_attendees_endpoint
    \/ update_event_short
    \/ delete_event
    \/ respond

SpecAttendees == Init /\ [][NextAttendees]_vars

\* The event endpoints and the reads, where a database call may raise.
NextStorage ==
    \/ create_calendar
    \/ create_event_storage
    \/ update_event_storage
    \/ delete_event_storage
    \/ get_events_endpoint
    \/ search_events_endpoint
    \/ check_availability_endpoint
    \/ respond

SpecStorage == Init /\ [][NextStorage]_vars

\* Calendars that are soft-deleted, with the event endpoints.
NextCalendars ==
    \/ create_calendar
    \/ update_calendar
    \/ delete_calendar
    \/ create_event_short
    \/ update_event_short
    \/ delete_event
    \/ get_event_endpoint
    \/ check_availability_endpoint
    \/ respond

SpecCalendars == Init /\ [][NextCalendars]_vars

\* The scenario's requests in their order, with reads in between.
NextScenario ==
    \/ scenario_calendar
    \/ scenario_create_E1
    \/ scenario_create_E2
    \/ scenario_create_E3
    \/ scenario_update_E1
    \/ scenario_recreate_E2
    \/ get_event_endpoint
    \/ get_events_endpoint
    \/ check_availability_endpoint
    \/ respond

SpecScenario == Init /\ [][NextScenario]_vars

\* The availability check over events of every status.
NextAvailability ==
    \/ create_calendar
    \/ create_event_short
    \/ update_event_any_status
    \/ check_availability_endpoint
    \/ respond

SpecAvailability == Init /\ [][NextAvailability]_vars

\* The WebSocket connections.
NextWebsocket ==
    \/ websocket_connect
    \/ websocket_accept_fails
    \/ websocket_disconnect
    \/ websocket_error

SpecWebsocket == Init /\ [][NextWebsocket]_vars

\* Updates that set the status field.
NextStatus ==
    \/ create_calendar
    \/ create_event_short
    \/ update_event_status
    \/ respond

SpecStatus == Init /\ [][NextStatus]_vars

\* ------------------------------------------------------------ properties
\* The vocabulary of the properties, stated on the tables alone.
Overlap(s1, e1, s2, e2) == s1 < e2 /\ s2 < e1
WellFormed(ev) == ev.start_time < ev.end_time
OwnedBy(u) == {c \in DOMAIN calendars : calendars[c].user_id = u}
ActiveOwnedBy(u) == {c \in OwnedBy(u) : calendars[c].is_active}
EventsOf(u) == {ev \in events : ev.calendar_id \in OwnedBy(u)}
SameUser(a, b) ==
    /\ a.calendar_id \in DOMAIN calendars
    /\ b.calendar_id \in DOMAIN calendars
    /\ calendars[a.calendar_id].user_id = calendars[b.calendar_id].user_id

\* C1: no two stored confirmed events on calendars of the same user have
\* overlapping windows.
C1_NoConfirmedOverlap ==
    \A a \in events, b \in events :
        (/\ a.id # b.id
         /\ SameUser(a, b)
         /\ a.status = "confirmed" /\ b.status = "confirmed"
         /\ WellFormed(a) /\ WellFormed(b))
        => ~ Overlap(a.start_time, a.end_time, b.start_time, b.end_time)

\* C2: check_availability(user, s, e, exclude) is false exactly when some
\* event on a calendar of the user, other than the excluded one, has
\* start < e and s < end.
C2_AvailabilityIffNoOverlap ==
    \A u \in Users, s \in Times, e \in Times, x \in EventIds \cup {NoId} :
        s < e =>
            (check_availability(u, s, e, x) <=>
                ~ \E ev \in EventsOf(u) :
                    /\ ev.id # x
                    /\ Overlap(s, e, ev.start_time, ev.end_time))

\* C3: of two POST /events requests on the same calendar with overlapping
\* windows whose availability checks both ran before either wrote, at most
\* one is persisted.
C3_ConcurrentOverlapOneWins ==
    \A a \in events, b \in events :
        (/\ a.id < b.id
         /\ a.calendar_id = b.calendar_id
         /\ b.checkedAt <= a.id)
        => ~ Overlap(a.start_time, a.end_time, b.start_time, b.end_time)

\* C4: a POST /events whose window touches a stored event of the user
\* (one ends where the other starts) and overlaps none of the user's events
\* is accepted, and the new row is stored next to the rows already there.
C4_TouchingAccepted ==
    [][(/\ last'.op = "create_event"
        /\ last'.start_time < last'.end_time
        /\ last'.calendar_id \in ActiveOwnedBy(last'.user)
        /\ \E ev \in EventsOf(last'.user) :
              ev.end_time = last'.start_time \/ ev.start_time = last'.end_time
        /\ \A ev \in EventsOf(last'.user) :
              ~ Overlap(last'.start_time, last'.end_time,
                        ev.start_time, ev.end_time))
       => (/\ last'.code = 201
           /\ events \subseteq events'
           /\ \E n \in events' \ events :
                 /\ n.id = last'.event_id
                 /\ n.calendar_id = last'.calendar_id
                 /\ n.start_time = last'.start_time
                 /\ n.end_time = last'.end_time)]_vars

\* a touching POST /events was accepted
C4_Witness ==
    /\ last.op = "create_event" /\ last.code = 201
    /\ \E n \in events, ev \in events :
          /\ n.id = last.event_id /\ ev.id # n.id
          /\ SameUser(n, ev)
          /\ WellFormed(ev)
          /\ (ev.end_time = n.start_time \/ ev.start_time = n.end_time)

\* C5: every stored event has end_time > start_time.
C5_EndAfterStart == \A ev \in events : ev.end_time > ev.start_time

\* C6: a POST /events with end_time <= start_time is refused (422) without
\* an availability check, and the events table is left as it was.
C6_CreateInvalidWindowRejected ==
    [][(last'.op = "create_event" /\ last'.end_time <= last'.start_time)
       => (last'.code = 422 /\ ~ last'.checked /\ events' = events)]_vars

\* a POST /events with end_time <= start_time on the user's own calendar
\* was refused while events were stored
C6_Witness ==
    /\ last.op = "create_event" /\ last.code = 422
    /\ last.end_time <= last.start_time
    /\ last.calendar_id \in ActiveOwnedBy(last.user)
    /\ events # {}

\* C7: a PUT /events/{id} that supplies a time and whose effective window
\* overlaps another event of the user is refused with 409 and changes no row.
C7_UpdateOverlapRejected ==
    [][(/\ last'.op = "update_event"
        /\ (last'.start_time # NoTime \/ last'.end_time # NoTime)
        /\ \E ev \in events :
              /\ ev.id = last'.event_id
              /\ ev.calendar_id \in ActiveOwnedBy(last'.user)
              /\ new_start(ev, last'.start_time) < new_end(ev, last'.end_time)
              /\ \E o \in EventsOf(last'.user) :
                    /\ o.id # ev.id
                    /\ WellFormed(o)
                    /\ Overlap(new_start(ev, last'.start_time),
                               new_end(ev, last'.end_time),
                               o.start_time, o.end_time))
       => (last'.code = 409 /\ events' = events)]_vars

\* C8: a PUT /events/{id} that passes schema validation, supplies a time,
\* has for effective window the window the row already has, and overlaps no
\* other event of the user, runs the availability check and is accepted; the
\* row keeps its window.
C8_MoveOntoOwnWindowAccepted ==
    [][(/\ last'.op = "update_event"
        /\ (last'.start_time # NoTime \/ last'.end_time # NoTime)
        /\ ~ (/\ last'.start_time # NoTime /\ last'.end_time # NoTime
              /\ last'.end_time <= last'.start_time)
        /\ \E ev \in events :
              /\ ev.id = last'.event_id
              /\ ev.calendar_id \in ActiveOwnedBy(last'.user)
              /\ new_start(ev, last'.start_time) = ev.start_time
              /\ new_end(ev, last'.end_time) = ev.end_time
              /\ \A o \in EventsOf(last'.user) :
                    o.id # ev.id =>
                        ~ Overlap(ev.start_time, ev.end_time,
                                  o.start_time, o.end_time))
       => (last'.code = 200 /\ last'.checked /\ events' = events)]_vars

\* an event with a well-formed window was moved onto its own window while
\* the same user has another event stored
C8_Witness ==
    /\ last.op = "update_event" /\ last.code = 200 /\ last.checked
    /\ \E b \in last.before :
          /\ WellFormed(b)
          /\ new_start(b, last.start_time) = b.start_time
          /\ new_end(b, last.end_time) = b.end_time
          /\ b \in events
          /\ \E o \in events : o.id # b.id /\ SameUser(o, b) /\ WellFormed(o)

\* C9: a PUT /events/{id} that supplies neither start_time nor end_time
\* never runs the availability check and leaves every row's start_time and
\* end_time as they were; for an event on one of the user's calendars it is
\* accepted, whatever the event overlaps.
C9_UntimedUpdateBypassesCheck ==
    [][(/\ last'.op = "update_event"
        /\ last'.start_time = NoTime /\ last'.end_time = NoTime)
       => (/\ ~ last'.checked
           /\ last'.code # 409
           /\ \A ev \in events : \E n \in events' :
                 /\ n.id = ev.id
                 /\ n.start_time = ev.start_time
                 /\ n.end_time = ev.end_time
           /\ (\E ev \in events :
                 /\ ev.id = last'.event_id
                 /\ ev.calendar_id \in ActiveOwnedBy(last'.user))
              => last'.code = 200)]_vars

\* an update without times was accepted for an event that overlaps another
\* event of the same user
C9_Witness ==
    /\ last.op = "update_event" /\ last.code = 200 /\ ~ last.checked
    /\ last.start_time = NoTime /\ last.end_time = NoTime
    /\ \E ev \in events, o \in events :
          /\ ev.id = last.event_id /\ o.id # ev.id
          /\ SameUser(ev, o)
          /\ WellFormed(ev) /\ WellFormed(o)
          /\ Overlap(ev.start_time, ev.end_time, o.start_time, o.end_time)

\* C10: a POST /events naming a calendar that is not the acting user's
\* (another user's or unknown) is refused before the availability check and
\* writes nothing; after every step each stored event lies on a calendar
\* owned by the user whose request created it.
C10_EventsOnlyOnOwnCalendars ==
    [][(/\ (/\ last'.op = "create_event"
            /\ last'.calendar_id \notin OwnedBy(last'.user))
           => (/\ last'.code \in {404, 422}
               /\ (last'.start_time < last'.end_time => last'.code = 404)
               /\ ~ last'.checked
               /\ events' = events)
        /\ \A ev \in events' :
              /\ ev.calendar_id \in DOMAIN calendars'
              /\ calendars'[ev.calendar_id].user_id = ev.creator)]_vars

\* a well-formed POST /events naming another user's calendar was refused,
\* while that calendar's owner has an event stored
C10_Witness ==
    /\ last.op = "create_event" /\ last.code = 404
    /\ last.start_time < last.end_time
    /\ last.calendar_id \in DOMAIN calendars
    /\ calendars[last.calendar_id].user_id # last.user
    /\ \E ev \in events : ev.calendar_id = last.calendar_id

\* the event a request names lies on a calendar of the acting user
NamesOwnEvent(user, event_id) ==
    \E ev \in events : ev.id = event_id /\ ev.calendar_id \in OwnedBy(user)

\* C11: after a POST /events that carries attendees, either the request
\* succeeded and the event row and one attendee row for every attendee
\* supplied are stored, or neither an event row nor an attendee row was
\* added.
C11_CreateWithAttendeesAtomic ==
    [][(last'.op = "create_event" /\ detail'.supplied > 0)
       => \/ /\ last'.code = 201
             /\ \E n \in events' \ events :
                   /\ n.id = last'.event_id
                   /\ Cardinality({a \in attendees' \ attendees :
                                      a.event_id = n.id}) = detail'.supplied
          \/ /\ last'.code # 201
             /\ events' = events
             /\ attendees' = attendees]_vars

\* C12: a DELETE /events/{id} by the user on whose active calendar the
\* event lies deletes the event with all of its attendee rows: afterwards no
\* attendee row references id, and get_event_attendees(id) is empty.
C12_DeleteEventRemovesAttendees ==
    [][(/\ last'.op = "delete_event"
        /\ \E ev \in events :
              /\ ev.id = last'.event_id
              /\ ev.calendar_id \in ActiveOwnedBy(last'.user))
       => (/\ ~ \E ev \in events' : ev.id = last'.event_id
           /\ ~ \E a \in attendees' : a.event_id = last'.event_id)]_vars

\* C13: GET, PUT and DELETE /events/{id} and GET /events/{id}/attendees
\* for an id that is not an event of the acting user get one response,
\* whether the id names an event of another user or no event: 404 "Event
\* not found" with no rows (422 for a PUT the schema refuses), no
\* availability check, and no table is changed.
C13_OtherUsersEventIsNotFound ==
    [][(/\ last'.op \in {"get_event", "update_event", "delete_event",
                         "get_event_attendees"}
        /\ ~ NamesOwnEvent(last'.user, last'.event_id))
       => (/\ last'.code =
                 IF /\ last'.op = "update_event"
                    /\ last'.start_time # NoTime /\ last'.end_time # NoTime
                    /\ last'.end_time <= last'.start_time
                 THEN 422 ELSE 404
           /\ detail'.message =
                 IF last'.code = 404 THEN "Event not found" ELSE ""
           /\ detail'.items = {}
           /\ ~ last'.checked
           /\ calendars' = calendars
           /\ events' = events
           /\ attendees' = attendees)]_vars

\* the attendees of an event of another user, which has attendees, were
\* asked for and the answer was 404
C13_Witness ==
    /\ last.op = "get_event_attendees" /\ last.code = 404
    /\ \E b \in last.before :
          /\ b \in events
          /\ calendars[b.calendar_id].user_id # last.user
          /\ \E a \in attendees : a.event_id = b.id

\* C15: a POST /events/{id}/attendees or a DELETE /attendees/{id} issued by
\* a user who does not own the calendar of the event concerned changes no
\* attendee row.
C15_AttendeesMutatedOnlyByOwner ==
    [][(\/ /\ last'.op = "add_event_attendee"
           /\ ~ NamesOwnEvent(last'.user, last'.event_id)
        \/ /\ last'.op = "remove_event_attendee"
           /\ \E a \in attendees :
                 /\ a.id = detail'.attendee_id
                 /\ ~ NamesOwnEvent(last'.user, a.event_id))
       => attendees' = attendees]_vars

\* C20: a DELETE /events/{id} for an id that names no stored event is
\* answered 404 "Event not found", not 500, and changes neither the events
\* nor the attendees table.
C20_DeleteMissingIsNotFound ==
    [][(/\ last'.op = "delete_event"
        /\ ~ \E ev \in events : ev.id = last'.event_id)
       => (/\ last'.code = 404
           /\ detail'.message = "Event not found"
           /\ events' = events
           /\ attendees' = attendees)]_vars

\* an id that names no event was deleted and answered 404 while events and
\* attendees are stored
C20_Witness ==
    /\ last.op = "delete_event" /\ last.code = 404
    /\ last.before = {}
    /\ events # {}
    /\ attendees # {}

\* C14: every row in the response of GET /events (with or without
\* calendar_ids), of POST /events/search and in the conflicting_events of
\* POST /events/availability is an event on a calendar owned by the acting
\* user.
C14_ReadsOnlyOwnEvents ==
    [][(last'.op \in {"get_events", "search_events", "check_availability"})
       => \A id \in detail'.items : NamesOwnEvent(last'.user, id)]_vars

\* C16: when a query inside CalendarService.get_events raises during the
\* availability check of a POST /events, a PUT /events/{id} or a
\* POST /events/availability, the check does not report the window
\* available and no event row is added or changed.
C16_FetchFailureSurfaces ==
    [][(/\ last'.op \in {"create_event", "update_event",
                         "check_availability"}
        /\ detail'.fault \in FetchFaults)
       => (~ detail'.available /\ events' = events)]_vars

\* C17: a GET /events, POST /events/search, PUT or DELETE /events/{id}
\* during which a database call raises is answered 500, never with the
\* code of a business result.
C17_StorageFailureReported ==
    [][(/\ last'.op \in {"get_events", "search_events", "update_event",
                         "delete_event"}
        /\ detail'.fault # "none")
       => last'.code = 500]_vars

\* C18: once an event's status is cancelled, no PUT /events/{id} changes
\* its row: neither the status nor any other field.
C18_CancelledIsFinal ==
    [][last'.op = "update_event"
       => \A ev \in events : ev.status = "cancelled" => ev \in events']_vars

\* C19: the response of a POST /events or PUT /events/{id} refused with
\* 409 carries the stored events of the user, other than the one updated,
\* that overlap the requested (effective) window.
C19_ConflictCarriesOverlaps ==
    [][(last'.op \in {"create_event", "update_event"} /\ last'.code = 409)
       => LET named == {ev \in events : ev.id = last'.event_id}
              s == IF named = {} THEN last'.start_time
                   ELSE new_start(CHOOSE ev \in named : TRUE,
                                  last'.start_time)
              e == IF named = {} THEN last'.end_time
                   ELSE new_end(CHOOSE ev \in named : TRUE, last'.end_time)
          IN detail'.items =
                {o.id : o \in {ev \in EventsOf(last'.user) :
                                  /\ ev.id # last'.event_id
                                  /\ Overlap(s, e, ev.start_time,
                                             ev.end_time)}}]_vars

\* C21: no step removes a calendar row or changes its owner (a
\* DELETE /calendars/{id} that succeeds only sets is_active to FALSE), and
\* after every step each stored event references a stored calendar.
C21_CalendarsNeverRemoved ==
    [][/\ \A c \in DOMAIN calendars :
             /\ c \in DOMAIN calendars'
             /\ calendars'[c].user_id = calendars[c].user_id
       /\ \A ev \in events' : ev.calendar_id \in DOMAIN calendars'
       /\ (last'.op = "delete_calendar" /\ last'.code = 204)
          => (/\ DOMAIN calendars' = DOMAIN calendars
              /\ ~ calendars'[last'.calendar_id].is_active
              /\ events' = events)]_vars

\* a calendar that holds an event was soft-deleted and is still stored
\* with its owner
C21_Witness ==
    /\ last.op = "delete_calendar" /\ last.code = 204
    /\ last.calendar_id \in DOMAIN calendars
    /\ calendars[last.calendar_id].user_id = last.user
    /\ ~ calendars[last.calendar_id].is_active
    /\ \E ev \in events : ev.calendar_id = last.calendar_id

\* the calendars that are soft-deleted
Inactive == {c \in DOMAIN calendars : ~ calendars[c].is_active}

\* C27: a soft-deleted calendar stays soft-deleted in every step; GET, PUT
\* and DELETE /events/{id} for an event on it answer 404 (422 for a PUT the
\* schema refuses) and change no row; a DELETE /calendars/{id} on it
\* answers 404; and whenever the availability check of
\* POST /events/availability or POST /events reports a window unavailable,
\* an event on an active calendar of the user overlaps it.
C27_SoftDeletedStaysHidden ==
    [][/\ \A c \in Inactive : ~ calendars'[c].is_active
       /\ (/\ last'.op \in {"get_event", "update_event", "delete_event"}
           /\ \E ev \in events :
                 ev.id = last'.event_id /\ ev.calendar_id \in Inactive)
          => (/\ last'.code \in {404, 422}
              /\ last'.code = 422 => last'.op = "update_event"
              /\ events' = events)
       /\ (last'.op = "delete_calendar" /\ last'.calendar_id \in Inactive)
          => last'.code = 404
       /\ (\/ last'.op = "check_availability" /\ ~ detail'.available
           \/ last'.op = "create_event" /\ last'.code = 409)
          => \E ev \in events :
                /\ ev.calendar_id \in ActiveOwnedBy(last'.user)
                /\ Overlap(last'.start_time, last'.end_time,
                           ev.start_time, ev.end_time)]_vars

\* a window was reported available to the owner of a soft-deleted calendar
\* although an event on that calendar lies in the window
C27_Witness ==
    /\ last.op = "check_availability" /\ detail.available
    /\ detail.fault = "none"
    /\ last.event_id = NoId
    /\ \E ev \in events :
          /\ ev.calendar_id \in Inactive
          /\ calendars[ev.calendar_id].user_id = last.user
          /\ WellFormed(ev)
          /\ last.start_time = ev.start_time /\ last.end_time = ev.end_time

\* C22: with E1 [09:00,10:00) stored on calendar C, after the requests
\* create E2 [09:30,10:30), create E3 [10:00,11:00) and update of E1's
\* end_time to 09:15, the request to create E2 [09:30,10:30) again is
\* answered 201.
C22_ReRequestAccepted ==
    [][(scenario = 5 /\ scenario' = 6) => last'.code = 201]_vars

\* C23: a DELETE /attendees/{id} leaves calendars and events as they were,
\* keeps every attendee row with another id and adds none; when a row has
\* the id it is answered 204 and the row is gone, when none has it is
\* answered 404 and the attendees are as they were.
C23_RemoveAttendeeRemovesOneRow ==
    [][last'.op = "remove_event_attendee"
       => LET a == detail'.attendee_id
          IN /\ calendars' = calendars
             /\ events' = events
             /\ attendees' \subseteq attendees
             /\ \A r \in attendees : r.id # a => r \in attendees'
             /\ \A r \in attendees' : r.id # a
             /\ IF \E r \in attendees : r.id = a
                THEN last'.code = 204
                ELSE last'.code = 404 /\ attendees' = attendees]_vars

\* one of the two attendees of the only event ever created was removed and
\* the other is still stored
C23_Witness ==
    /\ last.op = "remove_event_attendee" /\ last.code = 204
    /\ nextEventId = 2
    /\ nextAttendeeId = 3
    /\ \E ev \in events :
          \E r \in attendees :
             r.event_id = ev.id /\ r.id # detail.attendee_id

\* C25: a POST /events or PUT /events/{id} answered 404 (calendar or
\* event not found, or not on one of the user's calendars) or 409 (window
\* unavailable) leaves calendars, events and attendees as they were.
C25_RejectedRequestChangesNothing ==
    [][(/\ last'.op \in {"create_event", "update_event"}
        /\ last'.code \in {404, 409})
       => (/\ calendars' = calendars
           /\ events' = events
           /\ attendees' = attendees)]_vars

\* a PUT with a time was answered 409 while the event has attendees
C25_Witness ==
    /\ last.op = "update_event" /\ last.code = 409
    /\ \E r \in attendees : r.event_id = last.event_id
    /\ last.before \subseteq events

\* C24: with POST /events requests interleaved between check and write, a
\* request is answered 409 only when a stored event on one of the user's
\* calendars overlaps its window, and a request that passed its check
\* stays in flight until its write, which stores its row next to all the
\* rows already stored and answers 201; so two requests for windows that
\* do not overlap each other (or any stored event) both end with 201 and
\* both rows stored, whatever the interleaving.
C24_ConcurrentDisjointBothStored ==
    [][/\ (last'.op = "create_event" /\ last'.code = 409)
          => \E ev \in events :
                /\ ev.calendar_id \in ActiveOwnedBy(last'.user)
                /\ Overlap(last'.start_time, last'.end_time,
                           ev.start_time, ev.end_time)
       /\ \A r \in inflight :
             \/ r \in inflight'
             \/ /\ last'.op = "create_event" /\ last'.code = 201
                /\ events \subseteq events'
                /\ \E ev \in events' \ events :
                      /\ ev.calendar_id = r.calendar_id
                      /\ ev.start_time = r.start_time
                      /\ ev.end_time = r.end_time]_vars

\* two events with windows that do not overlap are stored on the same
\* calendar, both checked before either was written
C24_Witness ==
    \E a \in events, b \in events :
        /\ a.id # b.id
        /\ a.calendar_id = b.calendar_id
        /\ WellFormed(a) /\ WellFormed(b)
        /\ ~ Overlap(a.start_time, a.end_time, b.start_time, b.end_time)
        /\ a.checkedAt = b.checkedAt

\* the stored events that the availability check of user u for the window
\* [s, e], without event x, compares and finds overlapping; no status here
Blocking(u, s, e, x) ==
    {ev \in events :
        /\ ev.calendar_id \in ActiveOwnedBy(u)
        /\ ev.id # x
        /\ ev.start_time >= s /\ ev.end_time <= e
        /\ Overlap(s, e, ev.start_time, ev.end_time)}

\* C26: whether the availability check reports a window unavailable is
\* decided by the calendars, ids and windows of the stored events alone,
\* never by their status: POST /events/availability answers available
\* false, and POST /events answers 409 instead of 201, exactly when some
\* stored event of any status is compared and overlaps the window; a
\* cancelled or tentative event therefore blocks exactly when a confirmed
\* event with the same window would.
C26_AvailabilityIgnoresStatus ==
    [][/\ (last'.op = "check_availability" /\ detail'.fault = "none")
          => (detail'.available
              <=> Blocking(last'.user, last'.start_time, last'.end_time,
                           last'.event_id) = {})
       /\ (last'.op = "create_event" /\ last'.code \in {201, 409})
          => (last'.code = 409
              <=> Blocking(last'.user, last'.start_time, last'.end_time,
                           NoId) # {})]_vars

\* a window is reported unavailable although the only event that blocks it
\* is cancelled, while a tentative event is stored as well
C26_Witness ==
    /\ last.op = "check_availability" /\ ~ detail.available
    /\ LET blocking == Blocking(last.user, last.start_time, last.end_time,
                                last.event_id)
       IN /\ blocking # {}
          /\ \A ev \in blocking : ev.status = "cancelled"
    /\ \E ev \in events : ev.status = "tentative"

\* C28: POST /events/availability answers available false exactly when
\* conflicting_events is not empty, and every event listed there is not
\* the excluded one and overlaps the requested window.
C28_ConflictingEventsOverlap ==
    [][(last'.op = "check_availability" /\ detail'.fault = "none")
       => (/\ ~ detail'.available <=> detail'.items # {}
           /\ \A ev \in events :
                 ev.id \in detail'.items
                 => (/\ ev.id # last'.event_id
                     /\ Overlap(last'.start_time, last'.end_time,
                                ev.start_time, ev.end_time)))]_vars

\* the users whose set in user_connections holds connection id c
HoldersOf(c) == {k \in DOMAIN user_connections : c \in user_connections[k]}

\* C29: the two registries agree: every key of active_connections is in
\* exactly one user's set of user_connections, every member of a user's
\* set is a key of active_connections, and no user's set is empty.
C29_RegistriesAgree ==
    /\ \A c \in DOMAIN active_connections : Cardinality(HoldersOf(c)) = 1
    /\ \A k \in DOMAIN user_connections :
          /\ user_connections[k] # {}
          /\ user_connections[k] \subseteq DOMAIN active_connections

\* a user's only connection was disconnected and the user's key is gone,
\* while another user has two connections registered
C29_Witness ==
    /\ \E w \in Sockets :
          /\ sockets[w].phase = "ended"
          /\ sockets[w].connection_id # NoId
          /\ sockets[w].connection_id \notin DOMAIN active_connections
          /\ Key(sockets[w].user) \notin DOMAIN user_connections
    /\ \E k \in DOMAIN user_connections : Cardinality(user_connections[k]) = 2

\* C30: a WebSocket whose websocket_endpoint call has returned is the
\* value of no key of active_connections, its connection id is in no
\* user's set, and neither send_to_user nor broadcast sends to it.
C30_EndedConnectionRemoved ==
    \A w \in Sockets :
        sockets[w].phase = "ended"
        => (/\ sockets[w].connection_id \notin DOMAIN active_connections
            /\ HoldersOf(sockets[w].connection_id) = {}
            /\ w \notin broadcast
            /\ \A k \in DOMAIN user_connections : w \notin send_to_user(k))

====
